---------------------------- MODULE Spec2Model ----------------------------
(***************************************************************************)
(* Model of the warehouse connection pool (backend/main.py,                *)
(* SnowflakeConnectionPool) and of the batch loaders of the pipeline       *)
(* (pipeline/csv_to_snowflake.py).                                         *)
(*                                                                         *)
(* Pool: each caller is a thread running the generator behind              *)
(* get_connection(); its position is pc[t].  Queue operations are atomic   *)
(* (queue.Queue is internally synchronised); "self._created += 1" and      *)
(* "self._created -= 1" are a load and a store, as in the byte code.       *)
(* conn.close() marks the connection closed (the connector's close() does  *)
(* not raise), and conn.cursor() on a closed connection raises, so the     *)
(* SELECT 1 probe of a closed connection always fails; the probe of an     *)
(* open connection may succeed or fail.                                    *)
(***************************************************************************)
EXTENDS Integers, Sequences, FiniteSets, TLC

\* ------------------------------------------------------------ bounds
NumThreads == 3          \* threads that call get_connection
MaxCapacity == 2         \* the pool is built with max_connections in 1..MaxCapacity
MaxCalls == 3            \* get_connection calls in one behaviour
MaxTime == 60            \* the clock stops here (seconds)
MaxRecords == 2          \* rows of the input DataFrame
MaxTableRows == 1        \* rows COMPANY_FINANCIALS holds before the first load
MaxBatchSize == 2        \* batch_size is drawn from 1..MaxBatchSize
MaxRuns == 2             \* loads of the same DataFrame in one behaviour

\* -------------------------------------------------- program constants
Timeout == 30            \* self._pool.get(timeout=30)

Threads == 1..NumThreads
NoConn == 0
NoThread == 0
\* what the body of a with block raises.  "except Exception" in get_connection
\* treats every exception alike, so the HTTPException(404) of
\* get_macro_indicators stands for all of them (a query error included).
BodyErrors == {"HTTPException"}

VARIABLES
    max_connections, \* self.max_connections, also the maxsize of self._pool
    pool,        \* self._pool: FIFO of idle connections
    created,     \* self._created
    lock,        \* self._lock: the thread holding it, or NoThread
    opened,      \* number of connections opened so far (ids 1..opened)
    calls,       \* number of get_connection calls entered so far
    started,     \* threads 1..started have called get_connection
    closed,      \* connections on which close() has been called
    pc,          \* per thread: position in get_connection
    conn,        \* per thread: local variable conn (NoConn = None)
    tmp,         \* per thread: value of self._created loaded by += / -=
    exc,         \* per thread: exception in flight, or "none"
    decs,        \* per thread: decrements of _created done by this scope
    now,         \* clock, seconds
    enterTime,   \* per thread: time get_connection was entered
    deadline,    \* per thread: time the timed queue get ends
    exhausted,   \* per thread: at entry _created = max_connections, nothing idle
    table,       \* rows of COMPANY_FINANCIALS, in insertion order
    df,          \* the DataFrame handed to the loader
    batch_size,  \* the loader's batch_size
    lpc,         \* position of the loader
    records,     \* the loader's list of tuples
    i,           \* the loader's batch offset (range(0, len(records), batch_size))
    k,           \* records of the current batch already executed
    total_processed, \* the loader's counter
    run,         \* number of the current load of df
    afterFirst,  \* the table as the first completed load left it
    atCall,      \* the table as it was when the current load was called
    mpc,         \* position of mysql_to_snowflake.main
    cur,         \* the table main is processing: Order[cur]
    mysql_engine,    \* main's mysql_engine: "none", "engine", "disposed"
    snowflake_conn,  \* main's snowflake_conn: "none", "open", "closed"
    countries_df,    \* what read_mysql_table returns for countries
    macro_df,        \* what read_mysql_table returns for macro_indicators
    sf_batch_size,   \* batch_size of load_dataframe_to_snowflake
    exists,      \* per Snowflake table: the table exists
    content,     \* per Snowflake table: its rows, in insertion order
    sf_i,        \* the batch loop's i of load_dataframe_to_snowflake
    total_inserted,  \* the loop's counter
    failed_batches,  \* per table: the load's list of <<batch_num, size, error>>
    attempts,    \* per table: <<offset, outcome>> of every executemany so far
    truncated,   \* per table: how truncate_snowflake_table ended
    loaded,      \* per table: how load_dataframe_to_snowflake ended
    processed,   \* per table: what main printed for the table
    exit_code,   \* exit status of the process
    constrained, \* per Snowflake table: it has its key constraint
    verified,    \* per table: ensure_snowflake_tables passed its CREATE TABLE
    before,      \* per Snowflake table: its rows when the run started
    cpc          \* position of close_all: "none", "loop", "reset", "done"

poolVars == <<max_connections, pool, created, lock, opened, calls, started,
              closed, pc, conn, tmp, exc, decs, now, enterTime, deadline,
              exhausted>>

loadVars == <<table, df, batch_size, lpc, records, i, k, total_processed, run,
              afterFirst, atCall>>

syncVars == <<mpc, cur, mysql_engine, snowflake_conn, countries_df, macro_df,
              sf_batch_size, exists, content, sf_i, total_inserted,
              failed_batches, attempts, truncated, loaded, processed,
              exit_code, constrained, verified, before>>

shutVars == <<cpc>>

vars == <<poolVars, loadVars, syncVars, shutVars>>

Range(s) == {s[n] : n \in 1..Len(s)}

\* ------------------------------------------------------------ __init__
\* SnowflakeConnectionPool(max_connections): empty queue, free lock, _created = 0
PoolInit ==
    /\ pool = <<>>
    /\ created = 0
    /\ lock = NoThread
    /\ opened = 0
    /\ calls = 0
    /\ started = 0
    /\ closed = {}
    /\ pc = [t \in Threads |-> "idle"]
    /\ conn = [t \in Threads |-> NoConn]
    /\ tmp = [t \in Threads |-> 0]
    /\ exc = [t \in Threads |-> "none"]
    /\ decs = [t \in Threads |-> 0]
    /\ now = 0
    /\ enterTime = [t \in Threads |-> 0]
    /\ deadline = [t \in Threads |-> 0]
    /\ exhausted = [t \in Threads |-> FALSE]

\* (mutant) the capacity gate without mutual exclusion
LockFree_NoLock == TRUE

\* "with self._lock:" can be entered
LockFree == lock = NoThread

\* (mutant) the connection is dropped without close()
DiscardConn_NoClose(c) == closed

\* conn.close()
DiscardConn(c) == closed \cup {c}

\* (mutant) the probe is skipped: every connection counts as alive
ProbeCanSucceed_Always(c) == TRUE

\* conn.cursor(); cursor.execute("SELECT 1") can succeed on c
ProbeCanSucceed(c) == c \notin closed

\* self._pool.put_nowait(conn) raises Full (Queue(maxsize=max_connections))
QueueFull == Len(pool) >= max_connections

\* the generator is left and its locals are gone
Exit(t) ==
    /\ pc' = [pc EXCEPT ![t] = "idle"]
    /\ conn' = [conn EXCEPT ![t] = NoConn]
    /\ exc' = [exc EXCEPT ![t] = "none"]
    /\ decs' = [decs EXCEPT ![t] = 0]
    /\ enterTime' = [enterTime EXCEPT ![t] = 0]
    /\ deadline' = [deadline EXCEPT ![t] = 0]
    /\ exhausted' = [exhausted EXCEPT ![t] = FALSE]

\* ------------------------------------------------------------ acquire
\* conn = self._pool.get_nowait(), or Empty and on to the lock.  Threads are
\* numbered in the order of their first call.
GetNowait(t) ==
    /\ pc[t] = "idle"
    /\ calls < MaxCalls
    /\ t <= started + 1
    /\ calls' = calls + 1
    /\ started' = IF t > started THEN t ELSE started
    /\ enterTime' = [enterTime EXCEPT ![t] = now]
    /\ exhausted' = [exhausted EXCEPT
                        ![t] = (created = max_connections /\ pool = <<>>)]
    /\ IF pool # <<>>
       THEN /\ conn' = [conn EXCEPT ![t] = Head(pool)]
            /\ pool' = Tail(pool)
            /\ pc' = [pc EXCEPT ![t] = "body"]
       ELSE /\ pc' = [pc EXCEPT ![t] = "lock"]
            /\ UNCHANGED <<conn, pool>>
    /\ UNCHANGED <<max_connections, created, lock, opened, closed, tmp, exc,
                   decs, now, deadline, loadVars, syncVars, shutVars>>

\* with self._lock: if self._created < self.max_connections: open a connection,
\* else: self._pool.get(timeout=30) starts, inside the lock
LockAndCheck(t) ==
    /\ pc[t] = "lock"
    /\ LockFree
    /\ lock' = t
    /\ IF created < max_connections
       THEN /\ pc' = [pc EXCEPT ![t] = "open"]
            /\ UNCHANGED deadline
       ELSE /\ pc' = [pc EXCEPT ![t] = "wait"]
            /\ deadline' = [deadline EXCEPT ![t] = now + Timeout]
    /\ UNCHANGED <<max_connections, pool, created, opened, calls, started,
                   closed, conn, tmp, exc, decs, now, enterTime, exhausted,
                   loadVars, syncVars, shutVars>>

\* conn = get_snowflake_connection() returns; self._created is loaded for += 1
OpenOk(t) ==
    /\ pc[t] = "open"
    /\ opened' = opened + 1
    /\ conn' = [conn EXCEPT ![t] = opened + 1]
    /\ tmp' = [tmp EXCEPT ![t] = created]
    /\ pc' = [pc EXCEPT ![t] = "incr"]
    /\ UNCHANGED <<max_connections, pool, created, lock, calls, started,
                   closed, exc, decs, now, enterTime, deadline, exhausted,
                   loadVars, syncVars, shutVars>>

\* (mutant) the failed open leaves the lock held
OpenFail_KeepsLock(t) ==
    /\ pc[t] = "open"
    /\ Exit(t)
    /\ UNCHANGED <<max_connections, pool, created, lock, opened, calls,
                   started, closed, tmp, now, loadVars, syncVars, shutVars>>

\* get_snowflake_connection() raises: the lock is released, conn is None, so
\* neither the except clause nor the finally clause touches the pool
OpenFail(t) ==
    /\ pc[t] = "open"
    /\ lock' = NoThread
    /\ Exit(t)
    /\ UNCHANGED <<max_connections, pool, created, opened, calls, started,
                   closed, tmp, now, loadVars, syncVars, shutVars>>

\* self._created += 1 is stored, the lock is released, conn is yielded
IncrStore(t) ==
    /\ pc[t] = "incr"
    /\ created' = tmp[t] + 1
    /\ tmp' = [tmp EXCEPT ![t] = 0]
    /\ lock' = NoThread
    /\ pc' = [pc EXCEPT ![t] = "body"]
    /\ UNCHANGED <<max_connections, pool, opened, calls, started, closed,
                   conn, exc, decs, now, enterTime, deadline, exhausted,
                   loadVars, syncVars, shutVars>>

\* conn = self._pool.get(timeout=30) returns a connection (the lock is held
\* during the wait and released now)
QueueGet(t) ==
    /\ pc[t] = "wait"
    /\ pool # <<>>
    /\ conn' = [conn EXCEPT ![t] = Head(pool)]
    /\ pool' = Tail(pool)
    /\ lock' = NoThread
    /\ pc' = [pc EXCEPT ![t] = "body"]
    /\ UNCHANGED <<max_connections, created, opened, calls, started, closed,
                   tmp, exc, decs, now, enterTime, deadline, exhausted,
                   loadVars, syncVars, shutVars>>

\* (mutant) a get without timeout: it never raises queue.Empty
QueueGetTimeout_Never(t) ==
    /\ pc[t] = "wait"
    /\ FALSE
    /\ UNCHANGED vars

\* self._pool.get(timeout=30) raises queue.Empty; conn is None, so neither the
\* except clause nor the finally clause touches the pool
QueueGetTimeout(t) ==
    /\ pc[t] = "wait"
    /\ pool = <<>>
    /\ lock' = NoThread
    /\ Exit(t)
    /\ UNCHANGED <<max_connections, pool, created, opened, calls, started,
                   closed, tmp, now, loadVars, syncVars, shutVars>>

\* ------------------------------------------------------------ the with-body
\* the body of the caller's with statement ends normally: on to finally
BodyOk(t) ==
    /\ pc[t] = "body"
    /\ pc' = [pc EXCEPT ![t] = "probe"]
    /\ UNCHANGED <<max_connections, pool, created, lock, opened, calls,
                   started, closed, conn, tmp, exc, decs, now, enterTime,
                   deadline, exhausted, loadVars, syncVars, shutVars>>

\* the body raises e, thrown into the generator at the yield:
\* except Exception: conn.close()
BodyRaise(t, e) ==
    /\ pc[t] = "body"
    /\ exc' = [exc EXCEPT ![t] = e]
    /\ closed' = DiscardConn(conn[t])
    /\ pc' = [pc EXCEPT ![t] = "exc_dec"]
    /\ UNCHANGED <<max_connections, pool, created, lock, opened, calls,
                   started, conn, tmp, decs, now, enterTime, deadline,
                   exhausted, loadVars, syncVars, shutVars>>

\* except clause: with self._lock: self._created -= 1 (load)
ExcDecLoad(t) ==
    /\ pc[t] = "exc_dec"
    /\ LockFree
    /\ lock' = t
    /\ tmp' = [tmp EXCEPT ![t] = created]
    /\ pc' = [pc EXCEPT ![t] = "exc_store"]
    /\ UNCHANGED <<max_connections, pool, created, opened, calls, started,
                   closed, conn, exc, decs, now, enterTime, deadline,
                   exhausted, loadVars, syncVars, shutVars>>

\* except clause: self._created -= 1 (store), lock released, raise: on to finally
ExcDecStore(t) ==
    /\ pc[t] = "exc_store"
    /\ created' = tmp[t] - 1
    /\ tmp' = [tmp EXCEPT ![t] = 0]
    /\ decs' = [decs EXCEPT ![t] = @ + 1]
    /\ lock' = NoThread
    /\ pc' = [pc EXCEPT ![t] = "probe"]
    /\ UNCHANGED <<max_connections, pool, opened, calls, started, closed,
                   conn, exc, now, enterTime, deadline, exhausted, loadVars, syncVars, shutVars>>

\* ------------------------------------------------------------ finally
\* cursor = conn.cursor(); cursor.execute("SELECT 1"); cursor.close() succeed
ProbeOk(t) ==
    /\ pc[t] = "probe"
    /\ ProbeCanSucceed(conn[t])
    /\ pc' = [pc EXCEPT ![t] = "put"]
    /\ UNCHANGED <<max_connections, pool, created, lock, opened, calls,
                   started, closed, conn, tmp, exc, decs, now, enterTime,
                   deadline, exhausted, loadVars, syncVars, shutVars>>

\* the probe raises: conn.close(), then decrement
ProbeFail(t) ==
    /\ pc[t] = "probe"
    /\ closed' = DiscardConn(conn[t])
    /\ pc' = [pc EXCEPT ![t] = "fin_dec"]
    /\ UNCHANGED <<max_connections, pool, created, lock, opened, calls,
                   started, conn, tmp, exc, decs, now, enterTime, deadline,
                   exhausted, loadVars, syncVars, shutVars>>

\* self._pool.put_nowait(conn) succeeds; the generator ends
PutNowait(t) ==
    /\ pc[t] = "put"
    /\ ~QueueFull
    /\ pool' = Append(pool, conn[t])
    /\ Exit(t)
    /\ UNCHANGED <<max_connections, created, lock, opened, calls, started,
                   closed, tmp, now, loadVars, syncVars, shutVars>>

\* self._pool.put_nowait(conn) raises Full: conn.close(), then decrement
PutFull(t) ==
    /\ pc[t] = "put"
    /\ QueueFull
    /\ closed' = DiscardConn(conn[t])
    /\ pc' = [pc EXCEPT ![t] = "fin_dec"]
    /\ UNCHANGED <<max_connections, pool, created, lock, opened, calls,
                   started, conn, tmp, exc, decs, now, enterTime, deadline,
                   exhausted, loadVars, syncVars, shutVars>>

\* finally clause: with self._lock: self._created -= 1 (load)
FinDecLoad(t) ==
    /\ pc[t] = "fin_dec"
    /\ LockFree
    /\ lock' = t
    /\ tmp' = [tmp EXCEPT ![t] = created]
    /\ pc' = [pc EXCEPT ![t] = "fin_store"]
    /\ UNCHANGED <<max_connections, pool, created, opened, calls, started,
                   closed, conn, exc, decs, now, enterTime, deadline,
                   exhausted, loadVars, syncVars, shutVars>>

\* finally clause: self._created -= 1 (store), lock released, generator ends
FinDecStore(t) ==
    /\ pc[t] = "fin_store"
    /\ created' = tmp[t] - 1
    /\ tmp' = [tmp EXCEPT ![t] = 0]
    /\ lock' = NoThread
    /\ Exit(t)
    /\ UNCHANGED <<max_connections, pool, opened, calls, started, closed,
                   now, loadVars, syncVars, shutVars>>

\* ------------------------------------------------------------ clock
\* a thread that takes time: it is outside get_connection or in the body of
\* its with block, in the timed get, or stands before the lock another holds.
\* Every other step of get_connection is taken at once.
TakesTime(t) ==
    \/ pc[t] \in {"idle", "body"}
    \/ pc[t] = "wait" /\ pool = <<>> /\ now < deadline[t]
    \/ pc[t] \in {"lock", "exc_dec", "fin_dec"} /\ ~LockFree

\* a timeout period passes while no thread can take a step at once
Tick ==
    /\ now < MaxTime
    /\ \A t \in Threads : TakesTime(t)
    /\ now' = now + Timeout
    /\ UNCHANGED <<max_connections, pool, created, lock, opened, calls,
                   started, closed, pc, conn, tmp, exc, decs, enterTime,
                   deadline, exhausted, loadVars, syncVars, shutVars>>

\* self._pool.get(timeout=30) raises queue.Empty once its 30 s have passed
TimedOut(t) ==
    /\ now >= deadline[t]
    /\ QueueGetTimeout(t)

\* ------------------------------------------------------------ specification
PoolStep(t) ==
    \/ GetNowait(t)
    \/ LockAndCheck(t)
    \/ OpenOk(t)
    \/ OpenFail(t)
    \/ IncrStore(t)
    \/ QueueGet(t)
    \/ BodyOk(t)
    \/ \E e \in BodyErrors : BodyRaise(t, e)
    \/ ExcDecLoad(t)
    \/ ExcDecStore(t)
    \/ ProbeOk(t)
    \/ ProbeFail(t)
    \/ PutNowait(t)
    \/ PutFull(t)
    \/ FinDecLoad(t)
    \/ FinDecStore(t)

\* no load is running and the table is empty
LoadIdle ==
    /\ table = <<>>
    /\ df = <<>>
    /\ batch_size = 1
    /\ lpc = "call"
    /\ records = <<>>
    /\ i = 0
    /\ k = 0
    /\ total_processed = 0
    /\ run = 1
    /\ afterFirst = <<>>
    /\ atCall = <<>>

\* the tables of the MySQL to Snowflake pipeline, in the order main
\* processes them
Order == <<"COUNTRIES", "MACRO_INDICATORS">>
SyncTables == {"COUNTRIES", "MACRO_INDICATORS"}

\* mysql_to_snowflake.main has not been started
SyncIdle ==
    /\ mpc = "start"
    /\ cur = 1
    /\ mysql_engine = "none"
    /\ snowflake_conn = "none"
    /\ countries_df = <<>>
    /\ macro_df = <<>>
    /\ sf_batch_size = 1
    /\ exists = [t \in SyncTables |-> FALSE]
    /\ content = [t \in SyncTables |-> <<>>]
    /\ sf_i = 0
    /\ total_inserted = 0
    /\ failed_batches = [t \in SyncTables |-> <<>>]
    /\ attempts = [t \in SyncTables |-> <<>>]
    /\ truncated = [t \in SyncTables |-> "no"]
    /\ loaded = [t \in SyncTables |-> "no"]
    /\ processed = [t \in SyncTables |-> "none"]
    /\ exit_code = 0
    /\ constrained = [t \in SyncTables |-> FALSE]
    /\ verified = [t \in SyncTables |-> FALSE]
    /\ before = [t \in SyncTables |-> <<>>]

\* close_all has not been called
ShutIdle == cpc = "none"

Init ==
    /\ max_connections \in 1..MaxCapacity
    /\ PoolInit
    /\ LoadIdle
    /\ SyncIdle
    /\ ShutIdle

\* the pool without a clock: a timed get may time out at any moment
Next ==
    \E t \in Threads :
        \/ PoolStep(t)
        \/ QueueGetTimeout(t)

Spec == Init /\ [][Next]_vars

\* the pool with the clock: a timed get times out when its 30 s have passed
NextTimed ==
    \/ \E t \in Threads :
        \/ PoolStep(t)
        \/ TimedOut(t)
    \/ Tick

SpecTimed == Init /\ [][NextTimed]_vars

\* ------------------------------------------------------------ pool claims
InScope(t) == pc[t] # "idle"
Holders == {t \in Threads : pc[t] = "body"}
ReleasePcs == {"exc_dec", "exc_store", "probe", "put", "fin_dec", "fin_store"}

\* C1: in every reachable state 0 <= _created <= max_connections.
C1_CreatedInRange == 0 <= created /\ created <= max_connections

\* C2: as long as no connection has been released (nothing idle, nothing
\* closed, no caller in its release path), the callers holding a connection
\* hold pairwise different ones, and once every caller that entered holds one,
\* the number of connections opened and _created both equal the number of
\* holders, which is at most max_connections.
C2_ConcurrentAcquire ==
    (/\ pool = <<>>
     /\ closed = {}
     /\ \A t \in Threads : pc[t] \notin ReleasePcs)
    => /\ \A t, u \in Holders : t # u => conn[t] # conn[u]
       /\ Cardinality(Holders) <= max_connections
       /\ (\A t \in Threads : pc[t] \in {"idle", "body"})
            => /\ created = Cardinality(Holders)
               /\ opened = Cardinality(Holders)

\* C2 witness: two callers entered an empty pool and each holds a connection
\* of its own; no other call was made
C2_Witness ==
    /\ calls = 2
    /\ max_connections = 2
    /\ Cardinality(Holders) = 2
    /\ opened = 2
    /\ created = 2
    /\ pool = <<>>
    /\ closed = {}

\* C3: a call made while _created = max_connections and nothing is idle waits
\* at most one timeout period in total: its timed get, which raises Empty at
\* deadline[t], ends at most Timeout after the call was entered.
C3_WaitAtMostTimeout ==
    \A t \in Threads :
        (pc[t] = "wait" /\ exhausted[t]) => deadline[t] - enterTime[t] <= Timeout

\* C4: a release never waits on another caller: no caller that has to discard
\* its connection stands before the lock while the lock is held by a caller
\* blocked in the timed get.
C4_ReleaseNeverBlocks ==
    \A t, u \in Threads :
        ~(pc[t] \in {"exc_dec", "fin_dec"} /\ lock = u /\ pc[u] = "wait")

\* C5: a connection is in exactly one state: no two callers hold the same
\* connection, a connection a caller holds is not idle, the idle queue holds
\* no connection twice, and a closed connection is neither idle nor in the
\* hands of a caller's body.
C5_ExclusiveState ==
    /\ \A t, u \in Threads :
          (t # u /\ conn[t] # NoConn) => conn[t] # conn[u]
    /\ \A t \in Threads : conn[t] # NoConn => conn[t] \notin Range(pool)
    /\ Cardinality(Range(pool)) = Len(pool)
    /\ Range(pool) \cap closed = {}
    /\ \A t \in Threads : pc[t] = "body" => conn[t] \notin closed

\* C5 witness: one connection is idle, one is leased and one has been closed
C5_Witness ==
    /\ pool # <<>>
    /\ closed # {}
    /\ \E t \in Threads : pc[t] = "body" /\ conn[t] \notin closed

\* C6: a lease that ended unhealthy (the body raised, or the probe failed) has
\* its connection closed and out of the idle queue, and _created is
\* decremented once for it: the decrement of the finally clause is not a
\* second one.
C6_UnhealthyDiscard ==
    \A t \in Threads :
        /\ pc[t] \in {"exc_dec", "exc_store", "fin_dec", "fin_store"}
             => (conn[t] \in closed /\ conn[t] \notin Range(pool))
        /\ pc[t] = "fin_store" => decs[t] = 0

\* C7: every exit path ends the lease: a connection that no caller's scope
\* holds any more is idle or closed, so once all requests have finished every
\* connection ever opened is idle or closed.
C7_NoLeak ==
    \A c \in 1..opened :
        \/ c \in Range(pool)
        \/ c \in closed
        \/ \E t \in Threads : InScope(t) /\ conn[t] = c

\* C7 witness: all requests have finished, by a normal exit and by a
\* discarding one
C7_Witness ==
    /\ \A t \in Threads : ~InScope(t)
    /\ opened >= 2
    /\ pool # <<>>
    /\ closed # {}

\* C8: a lease that ended normally with a successful probe puts its
\* connection back into the idle queue (and leaves _created alone): the
\* put never finds the queue full.
C8_HealthyReturnsToIdle ==
    \A t \in Threads : (pc[t] = "put" /\ exc[t] = "none") => ~QueueFull

\* C9: when the body fails with an error that does not indicate a broken
\* connection (HTTPException 404), the connection is released as healthy: it
\* is not closed and _created is not decremented.
C9_NonBrokenErrorKeepsConn ==
    \A t \in Threads :
        exc[t] = "HTTPException" => (conn[t] \notin closed /\ decs[t] = 0)

\* ------------------------------------------------- pool claims, continued
\* the warehouse connections that are open: opened and not closed
OpenConns == {c \in 1..opened : c \notin closed}

\* no caller is inside the code of get_connection that opens, counts or
\* releases a connection
Quiet == lock = NoThread /\ \A t \in Threads : pc[t] \in {"idle", "body", "lock"}

\* C24: a call that ends where the new connection was to be opened leaves
\* _created and the idle queue as they were, leaves the caller without a
\* connection and leaves the lock free.
C24_OpenFailureNeutral ==
    [][\A t \in Threads :
          (pc[t] = "open" /\ pc'[t] = "idle")
          => /\ created' = created
             /\ pool' = pool
             /\ opened' = opened
             /\ conn'[t] = NoConn
             /\ lock' = NoThread]_vars

\* C24 witness: the only call made so far has ended without a connection having
\* been opened, while _created was below max_connections: the open failed
C24_Witness ==
    /\ calls = 1
    /\ \A t \in Threads : pc[t] = "idle"
    /\ opened = 0
    /\ created = 0
    /\ lock = NoThread

\* C25: whenever no caller is inside the pool's code, _created is the number
\* of connections that are idle or leased.
C25_ExactAccounting ==
    Quiet => created = Len(pool) + Cardinality(Holders)

\* C26: the open warehouse connections never number more than
\* max_connections.
C26_OpenWithinCapacity == Cardinality(OpenConns) <= max_connections

\* the steps of get_connection that the pool's own code takes for caller t:
\* every step but the start of a call and the end of the caller's body
PoolProgress(t) ==
    \/ LockAndCheck(t)
    \/ OpenOk(t)
    \/ OpenFail(t)
    \/ IncrStore(t)
    \/ QueueGet(t)
    \/ QueueGetTimeout(t)
    \/ ExcDecLoad(t)
    \/ ExcDecStore(t)
    \/ ProbeOk(t)
    \/ ProbeFail(t)
    \/ PutNowait(t)
    \/ PutFull(t)
    \/ FinDecLoad(t)
    \/ FinDecStore(t)

\* fair scheduling: a thread that can take a step of the pool's code again and
\* again does take one (a thread before the lock gets it when it is released
\* often enough; a timed get returns or times out)
FairPool == \A t \in Threads : SF_vars(PoolProgress(t))

SpecLive == Init /\ [][Next]_vars /\ FairPool

\* the positions of a caller that is acquiring a connection
AcquirePcs == {"lock", "open", "incr", "wait"}

\* C27: every call of get_connection that is acquiring eventually yields a
\* connection or ends with an error, and every release eventually completes.
C27_NoDeadlock ==
    \A t \in Threads :
        /\ (pc[t] \in AcquirePcs) ~> (pc[t] \in {"body", "idle"})
        /\ (pc[t] \in ReleasePcs) ~> (pc[t] = "idle")

\* C27 witness: a caller waits in the timed get, holding the lock, while
\* another caller's release of a closed connection stands before the lock
C27_Witness ==
    \E t, u \in Threads :
        /\ pc[t] = "wait"
        /\ lock = t
        /\ pc[u] \in {"exc_dec", "fin_dec"}

\* ------------------------------------------------------------ close_all
\* close_all, called by shutdown_event while request threads may still be
\* inside get_connection.
\* 'while not self._pool.empty()' is true: get_nowait() takes the oldest idle
\* connection and conn.close() closes it (an exception of either is swallowed)
CloseAllTake ==
    /\ cpc \in {"none", "loop"}
    /\ pool # <<>>
    /\ pool' = Tail(pool)
    /\ closed' = closed \cup {Head(pool)}
    /\ cpc' = "loop"
    /\ UNCHANGED <<max_connections, created, lock, opened, calls, started,
                   pc, conn, tmp, exc, decs, now, enterTime, deadline,
                   exhausted, loadVars, syncVars>>

\* 'while not self._pool.empty()' is false: the loop ends
CloseAllEmpty ==
    /\ cpc \in {"none", "loop"}
    /\ pool = <<>>
    /\ cpc' = "reset"
    /\ UNCHANGED <<poolVars, loadVars, syncVars>>

\* 'self._created = 0', written without self._lock; close_all returns
CloseAllReset ==
    /\ cpc = "reset"
    /\ created' = 0
    /\ cpc' = "done"
    /\ UNCHANGED <<max_connections, pool, lock, opened, calls, started,
                   closed, pc, conn, tmp, exc, decs, now, enterTime, deadline,
                   exhausted, loadVars, syncVars>>

\* the pool's callers and the shutdown handler
NextShutdown ==
    \/ Next
    \/ CloseAllTake
    \/ CloseAllEmpty
    \/ CloseAllReset

SpecShutdown == Init /\ [][NextShutdown]_vars

\* C28: once close_all has returned and no caller is in the middle of
\* acquiring or releasing, _created equals the number of open connections
\* (idle or leased), is not negative, and covers every idle connection.
C28_CloseAllConsistent ==
    (cpc = "done" /\ Quiet)
        => /\ created = Cardinality(OpenConns)
           /\ created >= 0
           /\ Len(pool) <= created

\* ------------------------------------------------------------ CSV loader
\* pipeline/csv_to_snowflake.py, load_company_financials_to_snowflake(conn, df,
\* batch_size).  A DataFrame row is <<COMPANY, YEAR, REVENUE_USD,
\* NET_INCOME_USD>>; YEAR cells are floats, written in tenths (20235 is
\* 2023.5).  The connection is in autocommit mode, so every executed MERGE is
\* in the table at once.
NaN == -1                \* a missing numeric cell of the DataFrame
None == -2               \* Python None in a record, SQL NULL in a row
NaNCompany == "NaN"      \* a missing COMPANY cell
NoneCompany == "None"    \* Python None as a record's company

CompanyCells == {"Apple", NaNCompany}
YearCells == {20230, 20235, 20240, NaN}
Payloads == {<<100, 10>>, <<150, NaN>>}
DfRows == {<<c, y, p[1], p[2]>> : c \in CompanyCells, y \in YearCells, p \in Payloads}
TableRows == {<<"Apple", y, p[1], p[2]>> : y \in {2023, 2024}, p \in {<<100, 10>>, <<150, None>>}}

SeqsUpTo(S, n) == UNION {[1..m -> S] : m \in 0..n}

\* pd.notna(x) of a numeric cell
NotNa(x) == x # NaN

\* a COMPANY cell that dropna keeps
NotNaCompany(c) == c # NaNCompany

\* int(row.YEAR): truncation of the float
IntYear(y) == y \div 10

\* float(x) if pd.notna(x) else None
FloatOrNone(x) == IF NotNa(x) THEN x ELSE None

\* df.dropna(subset=['COMPANY', 'YEAR'])
Dropna(d) == SelectSeq(d, LAMBDA r : NotNaCompany(r[1]) /\ NotNa(r[2]))

\* one tuple of the records list
ToRecord(r) ==
    <<r[1], IF NotNa(r[2]) THEN IntYear(r[2]) ELSE None,
      FloatOrNone(r[3]), FloatOrNone(r[4])>>

\* the records list: rows whose company or year is None are skipped
BuildRecords(d) ==
    SelectSeq([n \in 1..Len(d) |-> ToRecord(d[n])],
              LAMBDA rec : rec[1] # NoneCompany /\ rec[2] # None)

\* ON target.COMPANY = source.COMPANY AND target.YEAR = source.YEAR
KeyMatch(row, rec) == row[1] = rec[1] /\ row[2] = rec[2]

\* (mutant) a MERGE without its WHEN MATCHED clause
Merge_KeepFirst(tbl, rec) ==
    IF \E n \in 1..Len(tbl) : KeyMatch(tbl[n], rec) THEN tbl ELSE Append(tbl, rec)

\* (mutant) a plain INSERT instead of the MERGE
Merge_InsertOnly(tbl, rec) == Append(tbl, rec)

\* MERGE INTO COMPANY_FINANCIALS with a one-row source: matching rows get the
\* source's REVENUE_USD and NET_INCOME_USD, without a match the row is inserted
Merge(tbl, rec) ==
    IF \E n \in 1..Len(tbl) : KeyMatch(tbl[n], rec)
    THEN [n \in 1..Len(tbl) |->
            IF KeyMatch(tbl[n], rec)
            THEN <<tbl[n][1], tbl[n][2], rec[3], rec[4]>>
            ELSE tbl[n]]
    ELSE Append(tbl, rec)

\* COMPANY_FINANCIALS is written by this MERGE only, which never adds a second
\* row for a key that has one
UniqueKeys(tbl) ==
    \A m, n \in 1..Len(tbl) : KeyMatch(tbl[m], tbl[n]) => m = n

\* (mutant) a slice that stops one record early
Batch_DropsLast(recs, off, size) ==
    SubSeq(recs, off + 1,
           IF off + size - 1 < Len(recs) THEN off + size - 1 ELSE Len(recs))

\* batch = records[i:i + batch_size]
Batch(recs, off, size) ==
    SubSeq(recs, off + 1, IF off + size < Len(recs) THEN off + size ELSE Len(recs))

\* the call up to the batch loop: empty input, cleaning, the records list
LoadCall ==
    /\ lpc = "call"
    /\ LET recs == BuildRecords(Dropna(df))
       IN IF df = <<>> \/ Dropna(df) = <<>> \/ recs = <<>>
          THEN /\ lpc' = "returned"
               /\ records' = <<>>
          ELSE /\ lpc' = "loop"
               /\ records' = recs
    /\ i' = 0
    /\ k' = 0
    /\ total_processed' = 0
    /\ atCall' = table
    /\ UNCHANGED <<table, df, batch_size, run, afterFirst, poolVars, syncVars, shutVars>>

\* cursor.execute(merge_query, record) for the next record of the batch; after
\* the last record of the batch total_processed grows and the next batch starts
ExecuteMerge ==
    /\ lpc = "loop"
    /\ LET batch == Batch(records, i, batch_size)
       IN /\ table' = Merge(table, batch[k + 1])
          /\ IF k + 1 < Len(batch)
             THEN /\ k' = k + 1
                  /\ UNCHANGED <<i, total_processed, lpc>>
             ELSE /\ k' = 0
                  /\ i' = i + batch_size
                  /\ total_processed' = total_processed + Len(batch)
                  /\ lpc' = IF i + batch_size < Len(records)
                            THEN "loop" ELSE "returned"
    /\ UNCHANGED <<df, batch_size, records, run, afterFirst, atCall, poolVars,
                   syncVars, shutVars>>

\* cursor.execute raises: except Exception as batch_error: raise, and the
\* outer handler raises Exception(error_msg)
ExecuteRaises ==
    /\ lpc = "loop"
    /\ lpc' = "raised"
    /\ UNCHANGED <<table, df, batch_size, records, i, k, total_processed, run,
                   afterFirst, atCall, poolVars, syncVars, shutVars>>

\* the pipeline is run again on the same CSV file
Rerun ==
    /\ lpc = "returned"
    /\ run < MaxRuns
    /\ run' = run + 1
    /\ afterFirst' = IF run = 1 THEN table ELSE afterFirst
    /\ lpc' = "call"
    /\ records' = <<>>
    /\ i' = 0
    /\ k' = 0
    /\ total_processed' = 0
    /\ UNCHANGED <<table, df, batch_size, atCall, poolVars, syncVars, shutVars>>

InitMerge ==
    /\ max_connections = MaxCapacity
    /\ PoolInit
    /\ ShutIdle
    /\ table \in SeqsUpTo(TableRows, MaxTableRows)
    /\ UniqueKeys(table)
    /\ df \in SeqsUpTo(DfRows, MaxRecords)
    /\ batch_size \in 1..MaxBatchSize
    /\ lpc = "call"
    /\ records = <<>>
    /\ i = 0
    /\ k = 0
    /\ total_processed = 0
    /\ run = 1
    /\ afterFirst = <<>>
    /\ atCall = <<>>
    /\ SyncIdle

NextMerge ==
    \/ LoadCall
    \/ ExecuteMerge
    \/ ExecuteRaises
    \/ Rerun

SpecMerge == InitMerge /\ [][NextMerge]_vars

\* ------------------------------------------------------------ loader claims
\* C10: the load is idempotent: when a second (or later) load of the same
\* DataFrame has completed, COMPANY_FINANCIALS holds exactly the rows, with the
\* same field values, that the first completed load left.
C10_MergeIdempotent ==
    (run >= 2 /\ lpc = "returned") => table = afterFirst

\* C10 witness: the second load of a DataFrame with two valid records has
\* completed on a table that was not empty before the first load
C10_Witness ==
    /\ run = 2
    /\ lpc = "returned"
    /\ Len(records) = 2
    /\ total_processed = 2
    /\ Len(table) >= 2

\* C11: when a load has completed and a (COMPANY, YEAR) key occurs more than
\* once among its records, in one batch or in several, COMPANY_FINANCIALS has
\* exactly one row for that key and the row's REVENUE_USD and NET_INCOME_USD
\* are those of the key's last occurrence in input order.
C11_LastOccurrenceWins ==
    lpc = "returned" =>
        \A m, n \in 1..Len(records) :
            (m < n /\ KeyMatch(records[m], records[n])
                   /\ \A q \in (n + 1)..Len(records) : ~KeyMatch(records[q], records[n]))
            => /\ Cardinality({r \in 1..Len(table) : KeyMatch(table[r], records[n])}) = 1
               /\ \A r \in 1..Len(table) :
                      KeyMatch(table[r], records[n])
                      => table[r][3] = records[n][3] /\ table[r][4] = records[n][4]

\* C11 witness: a completed load of two records with the same key and different
\* values, one record per batch
C11_Witness ==
    /\ lpc = "returned"
    /\ batch_size = 1
    /\ Len(records) = 2
    /\ KeyMatch(records[1], records[2])
    /\ records[1][3] # records[2][3]
    /\ total_processed = 2

\* C12: when the upsert of a batch raises, the load goes on with the next
\* batch: the call never ends on a batch error while later batches of the
\* records list have not been executed.
C12_ContinuesAfterBatchError ==
    lpc = "raised" => i + batch_size >= Len(records)

\* ---------------------------------------------- MySQL to Snowflake pipeline
\* pipeline/mysql_to_snowflake.py.  A row of countries is <<COUNTRY_CODE,
\* COUNTRY_NAME>>, a row of macro_indicators is <<ID, COUNTRY_CODE, YEAR,
\* INDICATOR, VALUE, SOURCE>>.  main calls the loader with its default
\* batch_size of 500; sf_batch_size scales it to the DataFrames of the model.
NaNText == "NaN"         \* a missing text cell of a DataFrame
NoneText == "None"       \* Python None in place of a text value

CountryRows == {<<"IND", "India">>, <<"BRA", "Brazil">>, <<NaNText, "Brazil">>}
MacroRows == {<<1, "IND", 2023, "GDP", 10, "World Bank">>,
              <<2, "IND", NaN, "GDP", NaN, "World Bank">>}

\* a row the Snowflake table holds from an earlier run
StaleRow(t) ==
    IF t = "COUNTRIES" THEN <<"USA", "United States">>
    ELSE <<"USA", 2000, "GDP", 1, "World Bank">>

\* str(batch_error) of the three ways executemany fails
InjectedError == "SQL execution error"
NullKeyError == "NULL result in a non-nullable column"
NoTableError == "Table does not exist"

\* the table main is processing
Cur == Order[cur]

\* countries_df, macro_df
DfOf(t) == IF t = "COUNTRIES" THEN countries_df ELSE macro_df

\* convert_value: pd.isna(val) gives None, any other value its native value
ConvertValue(v) == IF v = NaN THEN None ELSE v
ConvertText(c) == IF c = NaNText THEN NoneText ELSE c

\* the tuple of one row: every column but ID for COUNTRIES, the five listed
\* columns for MACRO_INDICATORS
ConvertRow(t, row) ==
    IF t = "COUNTRIES"
    THEN <<ConvertText(row[1]), ConvertText(row[2])>>
    ELSE <<ConvertText(row[2]), ConvertValue(row[3]), row[4],
           ConvertValue(row[5]), row[6]>>

\* the records list of the load of table t: one tuple per row, none left out
Records(t) == [n \in 1..Len(DfOf(t)) |-> ConvertRow(t, DfOf(t)[n])]

\* COUNTRY_CODE is the PRIMARY KEY of COUNTRIES and so NOT NULL, which
\* Snowflake enforces on a table that has the key; every inserted column of
\* MACRO_INDICATORS is nullable
NotNullOk(t, batch) ==
    t = "COUNTRIES" => \A n \in 1..Len(batch) : batch[n][1] # NoneText
NotNullHolds(t, batch) == constrained[t] => NotNullOk(t, batch)

\* (mutant) batch numbers counted from zero
BatchNum_FromZero(o, size) == o \div size

\* batch_num = (i // batch_size) + 1
BatchNum(o, size) == (o \div size) + 1

\* (mutant) raise as soon as one batch failed
AllFailed_AnyFailed(fb, ti) == fb # <<>>

\* if failed_batches: if total_inserted == 0: raise
AllFailed(fb, ti) == fb # <<>> /\ ti = 0

\* (mutant) a TRUNCATE that leaves the rows in place
Truncate_Keep(rows) == rows

\* TRUNCATE TABLE IF EXISTS
Truncate(rows) == <<>>

\* the end of main: sys.exit(1) or the normal end, and the finally block
ExitMain(code) ==
    /\ mpc' = "exited"
    /\ exit_code' = code
    /\ snowflake_conn' = IF snowflake_conn = "open" THEN "closed" ELSE snowflake_conn
    /\ mysql_engine' = IF mysql_engine = "engine" THEN "disposed" ELSE mysql_engine

\* the end of the try block of the table being processed.  A failure of
\* COUNTRIES is printed and main continues; a failure of MACRO_INDICATORS is
\* raised again and main exits with status 1
AfterTable(status) ==
    /\ processed' = [processed EXCEPT ![Cur] = status]
    /\ IF cur < Len(Order)
       THEN /\ cur' = cur + 1
            /\ mpc' = "read"
            /\ UNCHANGED <<exit_code, snowflake_conn, mysql_engine>>
       ELSE /\ cur' = cur
            /\ ExitMain(IF status = "failed" THEN 1 ELSE 0)

\* get_mysql_engine()
ConnectMySQL ==
    /\ mpc = "start"
    /\ mysql_engine' = "engine"
    /\ mpc' = "connect_sf"
    /\ UNCHANGED <<cur, snowflake_conn, countries_df, macro_df,
                   sf_batch_size, exists, content, sf_i, total_inserted,
                   failed_batches, attempts, truncated, loaded, processed,
                   exit_code, constrained, verified, before,
                   poolVars, loadVars, shutVars>>

ConnectMySQLFails ==
    /\ mpc = "start"
    /\ ExitMain(1)
    /\ UNCHANGED <<cur, countries_df, macro_df, sf_batch_size, exists,
                   content, sf_i, total_inserted, failed_batches, attempts,
                   truncated, loaded, processed, constrained, verified, before,
                   poolVars, loadVars, shutVars>>

\* get_snowflake_connection()
ConnectSnowflake ==
    /\ mpc = "connect_sf"
    /\ snowflake_conn' = "open"
    /\ mpc' = "ensure"
    /\ UNCHANGED <<cur, mysql_engine, countries_df, macro_df, sf_batch_size,
                   exists, content, sf_i, total_inserted, failed_batches,
                   attempts, truncated, loaded, processed, exit_code,
                   constrained, verified, before,
                   poolVars, loadVars, shutVars>>

ConnectSnowflakeFails ==
    /\ mpc = "connect_sf"
    /\ ExitMain(1)
    /\ UNCHANGED <<cur, countries_df, macro_df, sf_batch_size, exists,
                   content, sf_i, total_inserted, failed_batches, attempts,
                   truncated, loaded, processed, constrained, verified, before,
                   poolVars, loadVars, shutVars>>

\* ensure_snowflake_tables: both CREATE TABLE IF NOT EXISTS succeed.  A table
\* that exists is left as it is, a missing one is created with its key
EnsureTables ==
    /\ mpc = "ensure"
    /\ exists' = [t \in SyncTables |-> TRUE]
    /\ constrained' = [t \in SyncTables |-> IF exists[t] THEN constrained[t] ELSE TRUE]
    /\ verified' = [t \in SyncTables |-> TRUE]
    /\ mpc' = "read"
    /\ UNCHANGED <<cur, mysql_engine, snowflake_conn, countries_df, macro_df,
                   sf_batch_size, content, sf_i, total_inserted,
                   failed_batches, attempts, truncated, loaded, processed,
                   exit_code, before,
                   poolVars, loadVars, shutVars>>

\* ensure_snowflake_tables: the CREATE TABLE of Order[n] raises; the tables
\* before it have been created, main raises and exits with status 1
EnsureFails(n) ==
    /\ mpc = "ensure"
    /\ exists' = [t \in SyncTables |->
                    exists[t] \/ \E m \in 1..(n - 1) : Order[m] = t]
    /\ constrained' = [t \in SyncTables |->
                         IF exists[t] THEN constrained[t]
                         ELSE \E m \in 1..(n - 1) : Order[m] = t]
    /\ verified' = [t \in SyncTables |-> \E m \in 1..(n - 1) : Order[m] = t]
    /\ ExitMain(1)
    /\ UNCHANGED <<cur, countries_df, macro_df, sf_batch_size, content, sf_i,
                   total_inserted, failed_batches, attempts, truncated,
                   loaded, processed, before,
                   poolVars, loadVars, shutVars>>

\* read_mysql_table returns rows: main goes on to the truncation
ReadTable ==
    /\ mpc = "read"
    /\ DfOf(Cur) # <<>>
    /\ processed' = [processed EXCEPT ![Cur] = "attempted"]
    /\ mpc' = "truncate"
    /\ UNCHANGED <<cur, mysql_engine, snowflake_conn, countries_df, macro_df,
                   sf_batch_size, exists, content, sf_i, total_inserted,
                   failed_batches, attempts, truncated, loaded, exit_code,
                   constrained, verified, before,
                   poolVars, loadVars, shutVars>>

\* read_mysql_table returns no rows: "No data in ... table, skipping"
ReadEmpty ==
    /\ mpc = "read"
    /\ DfOf(Cur) = <<>>
    /\ AfterTable("skipped")
    /\ UNCHANGED <<countries_df, macro_df, sf_batch_size, exists, content,
                   sf_i, total_inserted, failed_batches, attempts, truncated,
                   loaded, constrained, verified, before,
                   poolVars, loadVars, shutVars>>

\* read_mysql_table raises
ReadFails ==
    /\ mpc = "read"
    /\ AfterTable("failed")
    /\ UNCHANGED <<countries_df, macro_df, sf_batch_size, exists, content,
                   sf_i, total_inserted, failed_batches, attempts, truncated,
                   loaded, constrained, verified, before,
                   poolVars, loadVars, shutVars>>

\* another session drops the table after the schema step.  The drop is taken
\* at the last moment it matters to main, just before the table's truncation
DropTable(t) ==
    /\ mpc = "truncate"
    /\ t = Cur
    /\ exists[t]
    /\ loaded[t] = "no"
    /\ exists' = [exists EXCEPT ![t] = FALSE]
    /\ constrained' = [constrained EXCEPT ![t] = FALSE]
    /\ content' = [content EXCEPT ![t] = <<>>]
    /\ UNCHANGED <<mpc, cur, mysql_engine, snowflake_conn, countries_df,
                   macro_df, sf_batch_size, sf_i, total_inserted,
                   failed_batches, attempts, truncated, loaded, processed,
                   exit_code, verified, before,
                   poolVars, loadVars, shutVars>>

\* truncate_snowflake_table: the table does not exist, warning and return
TruncateSkip ==
    /\ mpc = "truncate"
    /\ ~exists[Cur]
    /\ truncated' = [truncated EXCEPT ![Cur] = "skipped"]
    /\ mpc' = "load"
    /\ UNCHANGED <<cur, mysql_engine, snowflake_conn, countries_df, macro_df,
                   sf_batch_size, exists, content, sf_i, total_inserted,
                   failed_batches, attempts, loaded, processed, exit_code,
                   constrained, verified, before,
                   poolVars, loadVars, shutVars>>

\* truncate_snowflake_table: the table exists and is truncated
TruncateTable ==
    /\ mpc = "truncate"
    /\ exists[Cur]
    /\ content' = [content EXCEPT ![Cur] = Truncate(content[Cur])]
    /\ truncated' = [truncated EXCEPT ![Cur] = "emptied"]
    /\ mpc' = "load"
    /\ UNCHANGED <<cur, mysql_engine, snowflake_conn, countries_df, macro_df,
                   sf_batch_size, exists, sf_i, total_inserted,
                   failed_batches, attempts, loaded, processed, exit_code,
                   constrained, verified, before,
                   poolVars, loadVars, shutVars>>

\* truncate_snowflake_table: a statement raises
TruncateRaises ==
    /\ mpc = "truncate"
    /\ truncated' = [truncated EXCEPT ![Cur] = "raised"]
    /\ AfterTable("failed")
    /\ UNCHANGED <<countries_df, macro_df, sf_batch_size, exists, content,
                   sf_i, total_inserted, failed_batches, attempts, loaded,
                   constrained, verified, before,
                   poolVars, loadVars, shutVars>>

\* load_dataframe_to_snowflake up to the batch loop
LoadStart ==
    /\ mpc = "load"
    /\ sf_i' = 0
    /\ total_inserted' = 0
    /\ failed_batches' = [failed_batches EXCEPT ![Cur] = <<>>]
    /\ loaded' = [loaded EXCEPT ![Cur] = "running"]
    /\ mpc' = "batch"
    /\ UNCHANGED <<cur, mysql_engine, snowflake_conn, countries_df, macro_df,
                   sf_batch_size, exists, content, attempts, truncated,
                   processed, exit_code, constrained, verified, before,
                   poolVars, loadVars, shutVars>>

\* the next i of range(0, len(records), batch_size), or the end of the loop
NextBatch ==
    /\ sf_i' = sf_i + sf_batch_size
    /\ mpc' = IF sf_i + sf_batch_size < Len(Records(Cur)) THEN "batch" ELSE "load_end"

\* cursor.executemany(insert_query, batch) inserts the rows of the batch
ExecuteManyOk ==
    /\ mpc = "batch"
    /\ LET batch == Batch(Records(Cur), sf_i, sf_batch_size)
       IN /\ exists[Cur]
          /\ NotNullHolds(Cur, batch)
          /\ content' = [content EXCEPT ![Cur] = content[Cur] \o batch]
          /\ total_inserted' = total_inserted + Len(batch)
    /\ attempts' = [attempts EXCEPT ![Cur] = Append(attempts[Cur], <<sf_i, "ok">>)]
    /\ NextBatch
    /\ UNCHANGED <<cur, mysql_engine, snowflake_conn, countries_df, macro_df,
                   sf_batch_size, exists, failed_batches, truncated, loaded,
                   processed, exit_code, constrained, verified, before,
                   poolVars, loadVars, shutVars>>

\* the error of an executemany that raises
BatchErrors(t, batch) ==
    IF ~exists[t] THEN {NoTableError}
    ELSE IF ~NotNullHolds(t, batch) THEN {NullKeyError}
    ELSE {InjectedError}

\* cursor.executemany raises: the batch is appended to failed_batches and the
\* loop continues
ExecuteManyRaises(err) ==
    /\ mpc = "batch"
    /\ LET batch == Batch(Records(Cur), sf_i, sf_batch_size)
       IN /\ err \in BatchErrors(Cur, batch)
          /\ failed_batches' =
                [failed_batches EXCEPT ![Cur] =
                    Append(failed_batches[Cur],
                           <<BatchNum(sf_i, sf_batch_size), Len(batch), err>>)]
    /\ attempts' = [attempts EXCEPT ![Cur] = Append(attempts[Cur], <<sf_i, err>>)]
    /\ NextBatch
    /\ UNCHANGED <<cur, mysql_engine, snowflake_conn, countries_df, macro_df,
                   sf_batch_size, exists, content, total_inserted, truncated,
                   loaded, processed, exit_code, constrained, verified, before,
                   poolVars, loadVars, shutVars>>

\* after the loop: success or partial success, the call returns and main
\* prints "table processed successfully"
LoadReturns ==
    /\ mpc = "load_end"
    /\ ~AllFailed(failed_batches[Cur], total_inserted)
    /\ loaded' = [loaded EXCEPT ![Cur] = "returned"]
    /\ AfterTable("success")
    /\ UNCHANGED <<countries_df, macro_df, sf_batch_size, exists, content,
                   sf_i, total_inserted, failed_batches, attempts, truncated,
                   constrained, verified, before,
                   poolVars, loadVars, shutVars>>

\* after the loop: no record was inserted, the call raises
LoadRaises ==
    /\ mpc = "load_end"
    /\ AllFailed(failed_batches[Cur], total_inserted)
    /\ loaded' = [loaded EXCEPT ![Cur] = "raised"]
    /\ AfterTable("failed")
    /\ UNCHANGED <<countries_df, macro_df, sf_batch_size, exists, content,
                   sf_i, total_inserted, failed_batches, attempts, truncated,
                   constrained, verified, before,
                   poolVars, loadVars, shutVars>>

\* a Snowflake table when the run starts, as <<exists, constrained, rows>>: it
\* does not exist; or another tool created it without the key and it holds a
\* row of another source; or an earlier run of this pipeline created it, with
\* the key, and it holds the rows that run inserted from the same source (a row
\* of another source when these rows cannot all be inserted)
EarlierStates(t) ==
    {<<FALSE, FALSE, <<>>>>,
     <<TRUE, FALSE, <<StaleRow(t)>>>>,
     <<TRUE, TRUE, IF NotNullOk(t, Records(t)) THEN Records(t) ELSE <<StaleRow(t)>>>>}

InitSync ==
    /\ max_connections = MaxCapacity
    /\ PoolInit
    /\ ShutIdle
    /\ LoadIdle
    /\ mpc = "start"
    /\ cur = 1
    /\ mysql_engine = "none"
    /\ snowflake_conn = "none"
    /\ countries_df \in SeqsUpTo(CountryRows, MaxRecords)
    /\ macro_df \in SeqsUpTo(MacroRows, MaxRecords)
    /\ sf_batch_size \in 1..MaxBatchSize
    /\ \E cs \in EarlierStates("COUNTRIES"), ms \in EarlierStates("MACRO_INDICATORS") :
           /\ exists = [t \in SyncTables |-> IF t = "COUNTRIES" THEN cs[1] ELSE ms[1]]
           /\ constrained = [t \in SyncTables |-> IF t = "COUNTRIES" THEN cs[2] ELSE ms[2]]
           /\ content = [t \in SyncTables |-> IF t = "COUNTRIES" THEN cs[3] ELSE ms[3]]
    /\ before = content
    /\ verified = [t \in SyncTables |-> FALSE]
    /\ sf_i = 0
    /\ total_inserted = 0
    /\ failed_batches = [t \in SyncTables |-> <<>>]
    /\ attempts = [t \in SyncTables |-> <<>>]
    /\ truncated = [t \in SyncTables |-> "no"]
    /\ loaded = [t \in SyncTables |-> "no"]
    /\ processed = [t \in SyncTables |-> "none"]
    /\ exit_code = 0

NextSync ==
    \/ ConnectMySQL
    \/ ConnectMySQLFails
    \/ ConnectSnowflake
    \/ ConnectSnowflakeFails
    \/ EnsureTables
    \/ \E n \in 1..Len(Order) : EnsureFails(n)
    \/ ReadTable
    \/ ReadEmpty
    \/ ReadFails
    \/ \E t \in SyncTables : DropTable(t)
    \/ TruncateSkip
    \/ TruncateTable
    \/ TruncateRaises
    \/ LoadStart
    \/ ExecuteManyOk
    \/ \E err \in {InjectedError, NullKeyError, NoTableError} : ExecuteManyRaises(err)
    \/ LoadReturns
    \/ LoadRaises

SpecSync == InitSync /\ [][NextSync]_vars

\* ------------------------------------------------------- pipeline claims
\* the load of table t has ended
Finished(t) == loaded[t] \in {"returned", "raised"}

\* the executemany calls of table t that succeeded, and those that raised
OkAttempts(t) == {n \in 1..Len(attempts[t]) : attempts[t][n][2] = "ok"}
FailedAttempts(t) == {n \in 1..Len(attempts[t]) : attempts[t][n][2] # "ok"}

\* total_batches = (len(records) + batch_size - 1) // batch_size
NumBatches(t) == (Len(Records(t)) + sf_batch_size - 1) \div sf_batch_size

\* the n-th batch of the records of table t
NthBatch(t, n) == Batch(Records(t), (n - 1) * sf_batch_size, sf_batch_size)

\* the rows of the batches, among the first n, whose executemany succeeded
RECURSIVE AppliedBatches(_, _)
AppliedBatches(t, n) ==
    IF n = 0 THEN <<>>
    ELSE AppliedBatches(t, n - 1) \o
         (IF attempts[t][n][2] = "ok" THEN NthBatch(t, n) ELSE <<>>)

\* number, size and error of the batches, among the first n, that raised
RECURSIVE FailureEntries(_, _)
FailureEntries(t, n) ==
    IF n = 0 THEN <<>>
    ELSE FailureEntries(t, n - 1) \o
         (IF attempts[t][n][2] # "ok"
          THEN <<<<n, Len(NthBatch(t, n)), attempts[t][n][2]>>>> ELSE <<>>)

\* the record has a value in every key column of its table
HasKey(t, rec) ==
    IF t = "COUNTRIES" THEN rec[1] # NoneText
    ELSE rec[1] # NoneText /\ rec[2] # None

\* C13: when load_dataframe_to_snowflake has ended, each of the M batches of
\* its records was attempted exactly once, in input order; the table holds
\* exactly the rows of the batches that did not fail; failed_batches has one
\* entry for each failed batch, in order, with the batch's number and the
\* text of its error.
C13_EveryBatchOnce ==
    \A t \in SyncTables :
        Finished(t) =>
            /\ Len(attempts[t]) = NumBatches(t)
            /\ \A n \in 1..Len(attempts[t]) :
                   attempts[t][n][1] = (n - 1) * sf_batch_size
            /\ content[t] = AppliedBatches(t, Len(attempts[t]))
            /\ failed_batches[t] = FailureEntries(t, Len(attempts[t]))

\* C13 witness: a load of two batches has ended, the first batch inserted and
\* the second one failed
C13_Witness ==
    \E t \in SyncTables :
        /\ Finished(t)
        /\ Len(attempts[t]) = 2
        /\ attempts[t][1][2] = "ok"
        /\ attempts[t][2][2] = InjectedError
        /\ Len(content[t]) = 1

\* C14: load_dataframe_to_snowflake raises exactly when no batch succeeded
\* and at least one failed; with a batch that succeeded it returns, whatever
\* failed; and failed_batches lists as many batches as failed.
C14_RaisesIffAllFailed ==
    \A t \in SyncTables :
        Finished(t) =>
            /\ (loaded[t] = "raised")
                   <=> (OkAttempts(t) = {} /\ FailedAttempts(t) # {})
            /\ Len(failed_batches[t]) = Cardinality(FailedAttempts(t))

\* C14 witness: the load of COUNTRIES returned with one batch inserted and one
\* failed, the load of MACRO_INDICATORS raised
C14_Witness ==
    /\ loaded["COUNTRIES"] = "returned"
    /\ OkAttempts("COUNTRIES") # {}
    /\ FailedAttempts("COUNTRIES") # {}
    /\ loaded["MACRO_INDICATORS"] = "raised"

\* C15: a record without a value in a key column is in no batch of a load
\* and is not among the rows the load leaves in the truncated table.
C15_KeylessNeverLoaded ==
    \A t \in SyncTables :
        /\ loaded[t] # "no" =>
               \A n \in 1..Len(Records(t)) : HasKey(t, Records(t)[n])
        /\ truncated[t] = "emptied" =>
               \A n \in 1..Len(content[t]) : HasKey(t, content[t][n])

\* C16: a run of main that had both connections has attempted both tables
\* when it ends.
C16_BothTablesAttempted ==
    (mpc = "exited" /\ snowflake_conn = "closed") =>
        \A t \in SyncTables : processed[t] # "none"

\* C17: main exits with a non-zero status only if every table failed (a
\* table the run never reached counts as failed).
C17_ExitNonZeroOnlyIfAllFailed ==
    (mpc = "exited" /\ exit_code # 0) =>
        \A t \in SyncTables : processed[t] \in {"failed", "none"}

\* C18: main reports a table as processed successfully only if none of the
\* table's batches failed.
C18_SuccessOnlyIfNoFailedBatch ==
    \A t \in SyncTables : processed[t] = "success" => failed_batches[t] = <<>>

\* C19: after a truncation skipped because the table does not exist, the load
\* of the table is the next step and is made; after a truncation of an
\* existing table, the table holds the rows of the inserted batches only.
C19_TruncateSkipsOrEmpties ==
    \A t \in SyncTables :
        /\ truncated[t] = "skipped" =>
               (loaded[t] # "no" \/ (mpc = "load" /\ Cur = t))
        /\ truncated[t] = "emptied" =>
               content[t] = AppliedBatches(t, Len(attempts[t]))

\* C19 witness: the run has ended; COUNTRIES did not exist, its truncation
\* was skipped and its load was made; MACRO_INDICATORS was truncated and then
\* loaded
C19_Witness ==
    /\ mpc = "exited"
    /\ truncated["COUNTRIES"] = "skipped"
    /\ loaded["COUNTRIES"] = "raised"
    /\ truncated["MACRO_INDICATORS"] = "emptied"
    /\ loaded["MACRO_INDICATORS"] = "returned"
    /\ Len(content["MACRO_INDICATORS"]) >= 1

\* C29: when a table's load has ended and none of its batches failed, the
\* table holds exactly the converted source records, one row per record in
\* source order, and no row of an earlier run; so a run over the source an
\* earlier run already loaded leaves the table as that run left it.
C29_TruncateThenLoadIdempotent ==
    \A t \in SyncTables :
        (Finished(t) /\ FailedAttempts(t) = {})
            => /\ content[t] = Records(t)
               /\ before[t] = Records(t) => content[t] = before[t]

\* C29 witness: an earlier run loaded the same two source records into the
\* table; this run emptied it and inserted both batches
C29_Witness ==
    \E t \in SyncTables :
        /\ Finished(t)
        /\ truncated[t] = "emptied"
        /\ Len(before[t]) = 2
        /\ before[t] = Records(t)
        /\ Cardinality(OkAttempts(t)) = 2
        /\ FailedAttempts(t) = {}
        /\ content[t] = before[t]

\* the columns that identify a row of table t: COUNTRY_CODE, or
\* (COUNTRY_CODE, YEAR, INDICATOR_NAME)
RowKey(t, row) ==
    IF t = "COUNTRIES" THEN <<row[1]>> ELSE <<row[1], row[2], row[3]>>

\* C30: when a table was truncated and its load ended with failed batches,
\* the table still holds every row it held before the run unless the run
\* inserted a row with the same key.
C30_NoLossOnFailure ==
    \A t \in SyncTables :
        (Finished(t) /\ truncated[t] = "emptied" /\ FailedAttempts(t) # {})
            => \A row \in Range(before[t]) :
                   \/ row \in Range(content[t])
                   \/ \E n \in 1..Len(content[t]) :
                          RowKey(t, content[t][n]) = RowKey(t, row)

\* C21: no batch is inserted into a table that lacks its key constraint: the
\* schema step fails for an existing table without the constraint.
C21_NoLoadWithoutConstraint ==
    \A t \in SyncTables : OkAttempts(t) # {} => constrained[t]

\* the batches of table t that the loop executed, the first m of them, joined
RECURSIVE ConcatBatches(_, _)
ConcatBatches(t, m) ==
    IF m = 0 THEN <<>>
    ELSE ConcatBatches(t, m - 1) \o
         Batch(Records(t), attempts[t][m][1], sf_batch_size)

\* the smaller of two numbers
Min(a, b) == IF a < b THEN a ELSE b

Terminal == {"success", "failed", "skipped"}

\* C23: a table is truncated or loaded only after the schema step passed for
\* it; a table whose schema step failed has no truncation and no batch and the
\* run fails; and when a run that had both connections ends, each table whose
\* schema step passed has one terminal outcome.
C23_TableLifecycle ==
    \A t \in SyncTables :
        /\ (truncated[t] # "no" \/ loaded[t] # "no" \/ attempts[t] # <<>>)
               => verified[t]
        /\ (mpc = "exited" /\ snowflake_conn = "closed" /\ ~verified[t])
               => (truncated[t] = "no" /\ attempts[t] = <<>> /\ exit_code # 0)
        /\ (mpc = "exited" /\ snowflake_conn = "closed" /\ verified[t])
               => processed[t] \in Terminal

\* the table after the MERGE of every record of recs, in order
RECURSIVE ApplyRecords(_, _)
ApplyRecords(tbl, recs) ==
    IF recs = <<>> THEN tbl
    ELSE ApplyRecords(Merge(tbl, Head(recs)), Tail(recs))

\* number of batches of the records list
MergeBatches == (Len(records) + batch_size - 1) \div batch_size

\* the table after the batches n, n + 1, ... that are in S, each applied whole
RECURSIVE ApplyBatches(_, _, _)
ApplyBatches(tbl, n, S) ==
    IF n > MergeBatches THEN tbl
    ELSE ApplyBatches(IF n \in S
                      THEN ApplyRecords(tbl, Batch(records, (n - 1) * batch_size,
                                                   batch_size))
                      ELSE tbl,
                      n + 1, S)

\* C20: at every moment of a load, and after its end or its error, the table
\* is the table as it was at the call with some of the load's batches applied
\* whole: no batch is in the table in part.
C20_BatchAtomic ==
    lpc \in {"loop", "returned", "raised"} =>
        \E S \in SUBSET (1..MergeBatches) : table = ApplyBatches(atCall, 1, S)

=============================================================================
